---- MODULE Spec2Model ----
(***************************************************************************)
(* Model of pkg/github/projects.go: the GitHub Projects v2 tools.          *)
(*                                                                         *)
(* One tool invocation is modelled at a time.  A handler is cut into steps *)
(* at its upstream calls: every action issues exactly one upstream call    *)
(* (REST or GraphQL), receives a response chosen by the environment, and   *)
(* runs the code that follows the call up to the next call or the return.  *)
(* The handler entry actions run the argument validation that precedes the *)
(* first call.  Every upstream call is appended to the log "calls".        *)
(***************************************************************************)
EXTENDS Integers, Sequences, FiniteSets, TLC

VARIABLES
    args,        \* the arguments of the invocation (map[string]any)
    srv,         \* what the platform holds: projects, items, fields
    pc,          \* position of the handler: the upstream call it issues next
    ownerType,   \* the handler's ownerType variable
    calls,       \* log of the upstream calls issued so far, with responses
    result,      \* what the handler returned
    loc          \* locals of the running helper functions

vars == <<args, srv, pc, ownerType, calls, result, loc>>

(***************************************************************************)
(* Program constants.                                                      *)
(***************************************************************************)
MaxProjectsPerPage == 50
ScanPerPage == 50
ScanMaxPages == 5
ResolvePerPage == 100

(***************************************************************************)
(* Bounds of the model.                                                    *)
(***************************************************************************)
MaxBadArgs == 1      \* how many arguments of one invocation are malformed
MaxProjects == 2     \* how many projects one scope lists

(***************************************************************************)
(* Responses of the REST client (go-github): err, resp and StatusCode.     *)
(* A transport failure has err and no response; a non-2xx status has err   *)
(* and a response; a 2xx status has no err.                                *)
(***************************************************************************)
StatusOK == 200
StatusNoContent == 204
StatusNotFound == 404

Resp(e, r, s) == [err |-> e, resp |-> r, status |-> s]
R_ok == Resp(FALSE, TRUE, StatusOK)
R_nocontent == Resp(FALSE, TRUE, StatusNoContent)
R_http == Resp(TRUE, TRUE, StatusNotFound)
R_net == Resp(TRUE, FALSE, 0)

Faults == {R_http, R_net}
\* What a call on an existing resource may answer, and on a missing one.
Answers(exists) == IF exists THEN {R_ok, R_nocontent} \cup Faults ELSE Faults

(***************************************************************************)
(* Results of a handler: utils.NewToolResultText ("text"), an error result *)
(* (utils.NewToolResultError, ghErrors.NewGitHubAPI*ErrorResponse:         *)
(* "error"), or a Go error with a nil result ("goerr").  text is the       *)
(* message as a sequence of tokens; a marshalled JSON object starts with   *)
(* the token "{".                                                          *)
(***************************************************************************)
NoData == [projects |-> <<>>, note |-> FALSE, item_id |-> 0, updates |-> <<>>,
           pageInfo |-> <<>>]
NoResult == [kind |-> "none", text |-> <<>>, status |-> 0, data |-> NoData]
ToolError(text) == [kind |-> "error", text |-> text, status |-> 0, data |-> NoData]
\* ghErrors.NewGitHubAPIErrorResponse(ctx, message, resp, err)
APIError(message, r) ==
    [kind |-> "error", text |-> <<message>>, status |-> r.status, data |-> NoData]
\* ghErrors.NewGitHubAPIStatusErrorResponse(ctx, message, resp, body)
StatusError(message, r) ==
    [kind |-> "error", text |-> <<message, "body">>, status |-> r.status, data |-> NoData]
GoError(text) == [kind |-> "goerr", text |-> text, status |-> 0, data |-> NoData]
JSONText(tokens, data) ==
    [kind |-> "text", text |-> <<"{">> \o tokens, status |-> 0, data |-> data]
PlainText(tokens) == [kind |-> "text", text |-> tokens, status |-> 0, data |-> NoData]

(***************************************************************************)
(* The log of upstream calls.  closed counts the Close() calls on the      *)
(* response body.                                                          *)
(***************************************************************************)
NoOpts == [perPage |-> 0, afterSet |-> FALSE, after |-> 0, beforeSet |-> FALSE,
           before |-> 0]
\* UpdateProjectItemOptions.Fields: the sequence of field entries
NoPayload == <<>>
Call(fn, api, scope, r) ==
    [fn |-> fn, api |-> api, scope |-> scope, opts |-> NoOpts,
     payload |-> NoPayload, input |-> <<>>, r |-> r, respAfter |-> 0,
     respBefore |-> 0, closed |-> 0, listed |-> <<>>, id |-> <<>>]

Closed(c, n) == [c EXCEPT !.closed = n]

\* err == nil && resp.StatusCode == http.StatusOK
IsOK(r) == ~r.err /\ r.status = StatusOK

(***************************************************************************)
(* Arguments.  bad is the set of arguments that are missing or malformed   *)
(* (the Required*/Optional* helpers return an error for them).  per_page  *)
(* is 0 when absent.  A cursor string is modelled by a number, the empty   *)
(* string by 0; after and before are -1 when absent.                       *)
(***************************************************************************)
Tools == {"projects_list", "projects_get", "projects_write",
          "assign_issue_to_org_project", "update_project_item_field_by_name"}

BaseArgs == [tool |-> "", method |-> "", owner_type |-> "", bad |-> {},
             per_page |-> 0, after |-> -1, before |-> -1, item_type |-> "issue",
             uf_id |-> "ok", uf_value |-> "v", priority |-> "", size |-> "",
             field_name |-> "Priority", option_name |-> "High",
             item_owner |-> "acme", item_repo |-> "repo", issue_number |-> 5,
             pull_request_number |-> 9]

ArgNames(tool) ==
    CASE tool = "projects_list" ->
            {"method", "owner", "owner_type", "client", "project_number", "query",
             "fields", "per_page", "after", "before"}
      [] tool = "projects_get" ->
            {"method", "owner", "owner_type", "project_number", "client", "field_id",
             "item_id", "fields"}
      [] tool = "projects_write" ->
            {"method", "owner", "owner_type", "project_number", "client", "gqlClient",
             "item_type", "item_owner", "item_repo", "issue_number",
             "pull_request_number", "item_id", "updated_field", "updated_field_object"}
      [] tool = "assign_issue_to_org_project" ->
            {"org", "project_number", "item_owner", "item_repo", "issue_number",
             "priority", "size", "gqlClient", "client"}
      [] OTHER ->
            {"owner", "owner_type", "project_number", "item_id", "field_name",
             "option_name", "client"}

Methods(tool) ==
    CASE tool = "projects_list" ->
            {"list_projects", "list_project_fields", "list_project_items", "bogus"}
      [] tool = "projects_get" ->
            {"get_project", "get_project_field", "get_project_item", "bogus"}
      [] tool = "projects_write" ->
            {"add_project_item", "update_project_item", "delete_project_item", "bogus"}
      [] OTHER -> {""}

OwnerTypes(tool) ==
    IF tool = "assign_issue_to_org_project" THEN {""} ELSE {"", "user", "org"}

BadSets(tool) == {b \in SUBSET ArgNames(tool) : Cardinality(b) <= MaxBadArgs}

PerPages == {0, 1, 49, 50, 51, 100}
Cursors == {-1, 0, 50}

\* Invocations with malformed arguments, everything else at its default.
ArgsValidation(tool) ==
    {[BaseArgs EXCEPT !.tool = tool, !.method = m, !.owner_type = ot, !.bad = b] :
        m \in Methods(tool), ot \in OwnerTypes(tool), b \in BadSets(tool)}

\* Well-formed invocations, with the values that matter to the tool.
ArgsValues(tool) ==
    CASE tool = "projects_list" ->
            {[BaseArgs EXCEPT !.tool = tool, !.method = m, !.owner_type = ot,
                              !.per_page = pp, !.after = a, !.before = b] :
                m \in Methods(tool) \ {"bogus"}, ot \in OwnerTypes(tool),
                pp \in PerPages, a \in Cursors, b \in Cursors}
      [] tool = "projects_write" ->
            {[BaseArgs EXCEPT !.tool = tool, !.method = m, !.owner_type = ot,
                              !.item_type = it, !.uf_id = i, !.uf_value = v] :
                m \in Methods(tool) \ {"bogus"}, ot \in OwnerTypes(tool),
                it \in {"issue", "pull_request", "bogus"},
                i \in {"ok", "missing", "nonint"}, v \in {"v", "null", "missing"}}
      [] tool = "assign_issue_to_org_project" ->
            {[BaseArgs EXCEPT !.tool = tool, !.priority = p, !.size = s, !.bad = b] :
                p \in {"", "High", "Medium"}, s \in {"", "Large", "Huge"},
                b \in {{}, {"priority"}, {"size"}}}
      [] tool = "update_project_item_field_by_name" ->
            {[BaseArgs EXCEPT !.tool = tool, !.owner_type = ot, !.field_name = f,
                              !.option_name = o] :
                ot \in OwnerTypes(tool), f \in {"Priority", "Status"},
                o \in {"High", "Medium"}}
      [] OTHER -> {}

ArgsFor(tool) == ArgsValidation(tool) \cup ArgsValues(tool)

(***************************************************************************)
(* The platform.  userHas / orgHas: the owner exists as a user / as an     *)
(* organization holding the project.  The project's items are numbered     *)
(* 1..nItems in list order and the item of the requested issue is at       *)
(* position tp (0: the issue is not in the project).  A cursor is the      *)
(* number of items before the page it opens; 0 is the empty cursor.        *)
(* decoy, dp: the item at position dp is one for an issue of the requested *)
(* number whose content differs from the requested issue's as decoy says   *)
(* ("none": no such item).                                                 *)
(***************************************************************************)
ProjectIDs == {"p1", "p2"}
SeqsUpTo(S, n) == UNION {[1..k -> S] : k \in 0..n}

Option(id, name) == [id |-> id, name |-> name]
Field(name, id, options) == [name |-> name, id |-> id, options |-> options]

FieldsBoth ==
    << Field("Priority", 42, <<Option("opt1", "High"), Option("opt2", "Low")>>),
       Field("Size", 43, <<Option("opt3", "Large")>>) >>
FieldsPriority ==
    << Field("Priority", 42, <<Option("opt1", "High"), Option("opt2", "Low")>>) >>
FieldConfigs == {<<>>, FieldsPriority, FieldsBoth}
\* the fields after the option Huge was created on Size
FieldsGrown ==
    << Field("Priority", 42, <<Option("opt1", "High"), Option("opt2", "Low")>>),
       Field("Size", 43, <<Option("opt3", "Large"), Option("opt4", "Huge")>>) >>
\* what the project's fields may become while an invocation runs
FieldChanges == FieldConfigs \cup {FieldsGrown}

\* <<nItems, tp>>
ScanScenarios ==
    {<<0, 0>>, <<30, 0>>, <<30, 7>>, <<100, 51>>, <<100, 0>>, <<250, 0>>,
     <<250, 250>>, <<300, 0>>, <<300, 201>>, <<300, 251>>}

\* what the item at dp has in place of the requested issue's content
DecoyKinds ==
    {"otherRepo", "otherOwner", "noRepo", "noRepoName", "noRepoOwner", "noID",
     "pullRequest", "noNumber"}

\* <<tp, dp, decoy>>
DecoyScenarios == {<<tp, 3, k>> : tp \in {0, 7}, k \in DecoyKinds}

BaseSrv == [userHas |-> TRUE, orgHas |-> TRUE, userProjects |-> <<>>,
            orgProjects |-> <<>>, nItems |-> 30, tp |-> 7, fields |-> FieldsBoth,
            decoy |-> "none", dp |-> 0, changed |-> FALSE]

Existence == {[BaseSrv EXCEPT !.userHas = u, !.orgHas = o] : u, o \in BOOLEAN}

SrvFor(a) ==
    IF a.tool = "projects_list" THEN
        IF a.method = "list_projects" /\ a.bad = {} /\ a.per_page = 0
           /\ a.after = -1 /\ a.before = -1
        THEN {[s EXCEPT !.userProjects = up, !.orgProjects = op] :
                s \in Existence, up, op \in SeqsUpTo(ProjectIDs, MaxProjects)}
        ELSE Existence
    ELSE IF a.tool = "assign_issue_to_org_project" THEN
        IF a.bad = {} /\ a.priority = "High" /\ a.size = ""
        THEN {[BaseSrv EXCEPT !.nItems = sc[1], !.tp = sc[2]] : sc \in ScanScenarios}
        ELSE IF a.priority # "" \/ a.size # ""
        THEN {[BaseSrv EXCEPT !.fields = f] : f \in FieldConfigs}
        ELSE IF a.bad = {}
        THEN {[BaseSrv EXCEPT !.tp = d[1], !.dp = d[2], !.decoy = d[3]] :
                d \in DecoyScenarios} \cup {BaseSrv}
        ELSE {BaseSrv}
    ELSE IF a.tool = "update_project_item_field_by_name" /\ a.bad = {}
    THEN {[s EXCEPT !.fields = f] : s \in Existence, f \in FieldConfigs}
    ELSE Existence

(***************************************************************************)
(* Locals of the helper functions.                                         *)
(*   stage         which field setPriorityAndSize is working on            *)
(*   optionID, fieldID   what resolveSingleSelectOptionByName returned     *)
(*   payload       the UpdateProjectItemOptions built for the update       *)
(*   numericID     the item ID findProjectItemIDByIssue returned           *)
(*   page, after   the loop counter and opts.After of the item scan        *)
(*   updates       setPriorityAndSize's updates                            *)
(*   minimalProjects     listProjectsFromBothOwnerTypes' minimalProjects   *)
(*   nodeID, projectID   addProjectItem's node IDs                         *)
(***************************************************************************)
InitLoc == [stage |-> "", optionID |-> "", fieldID |-> 0, payload |-> NoPayload,
            numericID |-> 0, page |-> 0, after |-> 0, updates |-> <<>>,
            minimalProjects |-> <<>>, nodeID |-> <<>>, projectID |-> <<>>]

Init ==
    /\ \E tool \in Tools : \E a \in ArgsFor(tool) : \E s \in SrvFor(a) :
          args = a /\ srv = s
    /\ pc = "start"
    /\ ownerType = ""
    /\ calls = <<>>
    /\ result = NoResult
    /\ loc = InitLoc

(***************************************************************************)
(* Argument validation.                                                    *)
(***************************************************************************)
\* RequiredParam, RequiredInt, RequiredBigInt, OptionalParam,
\* OptionalBigIntArrayParam: an error for a missing or malformed argument.
RECURSIVE FirstBad(_)
FirstBad(names) ==
    IF names = <<>> THEN ""
    ELSE IF Head(names) \in args.bad THEN Head(names)
    ELSE FirstBad(Tail(names))

ParamError(name) == ToolError(<<"invalid parameter", name>>)

\* Where a piece of code without upstream calls ends: at a return, or at
\* the next upstream call.
Ret(res) == [pc |-> "done", result |-> res]
To(p) == [pc |-> p, result |-> NoResult]
\* Validate the arguments names in order, then go on with next.
Check(names, next) ==
    IF FirstBad(names) # "" THEN Ret(ParamError(FirstBad(names))) ELSE next

OptionalIntParamWithDefault(v, d) == IF v = 0 THEN d ELSE v

\* variant: the page size is passed on as requested
ClampPerPage_None(perPage) == perPage

\* if perPage > MaxProjectsPerPage { perPage = MaxProjectsPerPage }
ClampPerPage(perPage) ==
    IF perPage > MaxProjectsPerPage THEN MaxProjectsPerPage ELSE perPage

\* OptionalParam[string]: the zero value "" for an absent argument.
OptionalParam(v) == IF v = -1 THEN 0 ELSE v

\* extractPaginationOptionsFromArgs: the ListProjectsPaginationOptions.
\* afterSet / beforeSet: the After / Before pointer is not nil.
extractPaginationOptionsFromArgs ==
    LET perPage == ClampPerPage(OptionalIntParamWithDefault(args.per_page,
                                                            MaxProjectsPerPage))
        after == OptionalParam(args.after)
        before == OptionalParam(args.before)
    IN  [perPage |-> perPage,
         afterSet |-> after # 0, after |-> IF after # 0 THEN after ELSE 0,
         beforeSet |-> before # 0, before |-> IF before # 0 THEN before ELSE 0]
PaginationArgs == <<"per_page", "after", "before">>


(***************************************************************************)
(* Dispatch of the handlers: the code between the owner-type resolution    *)
(* and the first upstream call of the selected method.                     *)
(***************************************************************************)
\* variant: the user endpoints whatever the owner type
Endpoint_User(ot) == "user"

\* if ownerType == "org" { ...Organization... } else { ...User... }
Endpoint(ot) == IF ot = "org" THEN "org" ELSE "user"
Exists(scope) == IF scope = "org" THEN srv.orgHas ELSE srv.userHas

UnknownMethod == Ret(ToolError(<<"unknown method", args.method>>))

\* listProjects up to its first call
EnterListProjects(ot) ==
    Check(<<"query">> \o PaginationArgs,
          IF ot = "" THEN To("listBothUser") ELSE To("listProjects"))
\* listProjectFields up to its call
EnterListProjectFields ==
    Check(<<"project_number">> \o PaginationArgs, To("listProjectFields"))
\* listProjectItems up to its call
EnterListProjectItems ==
    Check(<<"project_number", "query", "fields">> \o PaginationArgs,
          To("listProjectItems"))

\* validateAndConvertToInt64 on updated_field.id
validateAndConvertToInt64(idKind) == idKind = "ok"

\* variant: a null value is rejected like a missing one
buildUpdateProjectItem_NullRejected(fv) ==
    IF fv.idKind = "missing" THEN
        [err |-> "updated_field.id is required", payload |-> NoPayload]
    ELSE IF ~validateAndConvertToInt64(fv.idKind) THEN
        [err |-> "updated_field.id: value must be a number", payload |-> NoPayload]
    ELSE IF fv.valKind \in {"missing", "null"} THEN
        [err |-> "updated_field.value is required", payload |-> NoPayload]
    ELSE [err |-> "",
          payload |-> << [fieldID |-> fv.id, valKind |-> fv.valKind,
                          value |-> fv.value] >>]

\* buildUpdateProjectItem: the error, or "" and the payload.
buildUpdateProjectItem(fv) ==
    IF fv.idKind = "missing" THEN
        [err |-> "updated_field.id is required", payload |-> NoPayload]
    ELSE IF ~validateAndConvertToInt64(fv.idKind) THEN
        [err |-> "updated_field.id: value must be a number", payload |-> NoPayload]
    ELSE IF fv.valKind = "missing" THEN
        [err |-> "updated_field.value is required", payload |-> NoPayload]
    ELSE [err |-> "",
          payload |-> << [fieldID |-> fv.id, valKind |-> fv.valKind,
                          value |-> fv.value] >>]

\* args["updated_field"] of projects_write
ArgFieldValue ==
    [idKind |-> args.uf_id, id |-> 7, valKind |-> args.uf_value,
     value |-> IF args.uf_value = "v" THEN "v" ELSE ""]
\* map[string]any{"id": fieldID, "value": optionID}
NamedFieldValue(fieldID, optionID) ==
    [idKind |-> "ok", id |-> fieldID, valKind |-> "v", value |-> optionID]

\* the switch of ProjectsGet
ProjectsGetSwitch ==
    CASE args.method = "get_project" -> To("getProject")
      [] args.method = "get_project_field" -> Check(<<"field_id">>, To("getProjectField"))
      [] args.method = "get_project_item" ->
            Check(<<"item_id", "fields">>, To("getProjectItem"))
      [] OTHER -> UnknownMethod

\* the switch of ProjectsWrite; updateProjectItem starts with
\* buildUpdateProjectItem, before its upstream call
ProjectsWriteSwitch ==
    CASE args.method = "add_project_item" ->
            Check(<<"item_type", "item_owner", "item_repo">>,
                CASE args.item_type = "issue" ->
                        IF "issue_number" \in args.bad
                        THEN Ret(ToolError(<<"issue_number is required">>))
                        ELSE To("addResolve")
                  [] args.item_type = "pull_request" ->
                        IF "pull_request_number" \in args.bad
                        THEN Ret(ToolError(<<"pull_request_number is required">>))
                        ELSE To("addResolve")
                  [] OTHER -> Ret(ToolError(<<"item_type must be either">>)))
      [] args.method = "update_project_item" ->
            Check(<<"item_id", "updated_field", "updated_field_object">>,
                IF buildUpdateProjectItem(ArgFieldValue).err # ""
                THEN Ret(ToolError(<<buildUpdateProjectItem(ArgFieldValue).err>>))
                ELSE To("update"))
      [] args.method = "delete_project_item" -> Check(<<"item_id">>, To("delete"))
      [] OTHER -> UnknownMethod

\* what the handler does once detectOwnerType returned a type
AfterDetect ==
    CASE args.tool = "projects_list" ->
            IF args.method = "list_project_fields" THEN EnterListProjectFields
            ELSE EnterListProjectItems
      [] args.tool = "projects_get" -> ProjectsGetSwitch
      [] args.tool = "projects_write" -> ProjectsWriteSwitch
      [] OTHER -> To("resolve")

\* the payload updateProjectItem sends when the handler reaches "update"
PayloadAt(step) ==
    IF step.pc = "update" THEN buildUpdateProjectItem(ArgFieldValue).payload
    ELSE loc.payload

Goto(step) ==
    /\ pc' = step.pc
    /\ result' = step.result
    /\ loc' = [loc EXCEPT !.payload = PayloadAt(step)]

\* if ownerType == "" { ownerType, err = detectOwnerType(...) }
DetectOr(next) == IF args.owner_type = "" THEN To("detectUser") ELSE next

(***************************************************************************)
(* Handler entries.                                                        *)
(***************************************************************************)
ProjectsList ==
    /\ pc = "start" /\ args.tool = "projects_list"
    /\ Goto(Check(<<"method", "owner", "owner_type", "client">>,
            CASE args.method = "list_projects" -> EnterListProjects(args.owner_type)
              [] args.method = "list_project_fields" ->
                    IF args.owner_type = ""
                    THEN Check(<<"project_number">>, To("detectUser"))
                    ELSE EnterListProjectFields
              [] args.method = "list_project_items" ->
                    IF args.owner_type = ""
                    THEN Check(<<"project_number">>, To("detectUser"))
                    ELSE EnterListProjectItems
              [] OTHER -> UnknownMethod))
    /\ ownerType' = args.owner_type
    /\ UNCHANGED <<args, srv, calls>>

ProjectsGet ==
    /\ pc = "start" /\ args.tool = "projects_get"
    /\ Goto(Check(<<"method", "owner", "owner_type", "project_number", "client">>,
                  DetectOr(ProjectsGetSwitch)))
    /\ ownerType' = args.owner_type
    /\ UNCHANGED <<args, srv, calls>>

ProjectsWrite ==
    /\ pc = "start" /\ args.tool = "projects_write"
    /\ Goto(Check(<<"method", "owner", "owner_type", "project_number", "client",
                    "gqlClient">>,
                  DetectOr(ProjectsWriteSwitch)))
    /\ ownerType' = args.owner_type
    /\ UNCHANGED <<args, srv, calls>>

UpdateProjectItemFieldByNames ==
    /\ pc = "start" /\ args.tool = "update_project_item_field_by_name"
    /\ Goto(Check(<<"owner", "owner_type", "project_number", "item_id", "field_name",
                    "option_name", "client">>,
                  DetectOr(To("resolve"))))
    /\ ownerType' = args.owner_type
    /\ UNCHANGED <<args, srv, calls>>

(***************************************************************************)
(* detectOwnerType.                                                        *)
(***************************************************************************)
\* variant: the organization is probed first
ProbeScope_OrgFirst(n) == IF n = 1 THEN "org" ELSE "user"

\* the scope of the n-th probe
ProbeScope(n) == IF n = 1 THEN "user" ELSE "org"

\* variant: an error without a response ends the detection
UserProbeOutcome_ShortCircuit(r) ==
    IF IsOK(r) THEN "user" ELSE IF r.err /\ ~r.resp THEN "fail" ELSE "tryOrg"

\* after the user probe: return "user", or go on to the org probe
UserProbeOutcome(r) == IF IsOK(r) THEN "user" ELSE "tryOrg"

\* variant: a failed org probe falls back to the user endpoints
OrgProbeOutcome_Fallback(r) == IF IsOK(r) THEN "org" ELSE "user"

\* after the org probe: return "org", or fail
OrgProbeOutcome(r) == IF IsOK(r) THEN "org" ELSE "fail"

DetectError ==
    ToolError(<<"could not determine owner type", "owner", "project_number">>)

\* if resp != nil { _ = resp.Body.Close() }, on the success path too
ProbeCall(n, r) ==
    Closed(Call("detectOwnerType", "GetProject", ProbeScope(n), r),
           IF r.resp THEN 1 ELSE 0)

Detected(outcome) ==
    IF outcome = "fail"
    THEN Goto(Ret(DetectError)) /\ UNCHANGED ownerType
    ELSE Goto(AfterDetect) /\ ownerType' = outcome

detectOwnerType_user ==
    /\ pc = "detectUser"
    /\ \E r \in Answers(Exists(ProbeScope(1))) :
          /\ calls' = Append(calls, ProbeCall(1, r))
          /\ IF UserProbeOutcome(r) = "tryOrg"
             THEN pc' = "detectOrg" /\ UNCHANGED <<result, loc, ownerType>>
             ELSE Detected(UserProbeOutcome(r))
    /\ UNCHANGED <<args, srv>>

detectOwnerType_org ==
    /\ pc = "detectOrg"
    /\ \E r \in Answers(Exists(ProbeScope(2))) :
          /\ calls' = Append(calls, ProbeCall(2, r))
          /\ Detected(OrgProbeOutcome(r))
    /\ UNCHANGED <<args, srv>>

(***************************************************************************)
(* Reads of one scope.  json.Marshal of the client's types does not fail   *)
(* and is left out.                                                        *)
(***************************************************************************)
Finish(res) == pc' = "done" /\ result' = res

\* The pattern of getProject, getProjectField, getProjectItem,
\* updateProjectItem and deleteProjectItem after the call:
\*   if err != nil { return NewGitHubAPIErrorResponse }
\*   defer resp.Body.Close()
\*   if resp.StatusCode != okStatus { body, err := io.ReadAll; ...StatusErrorResponse }
\* variant: every response that came without an error is a success
RestReturn_NoStatusCheck(r, readOK, message, okStatus, success) ==
    IF r.err THEN APIError(message, r) ELSE success

RestReturn(r, readOK, message, okStatus, success) ==
    IF r.err THEN APIError(message, r)
    ELSE IF r.status # okStatus THEN
        IF readOK THEN StatusError(message, r)
        ELSE GoError(<<"failed to read response body">>)
    ELSE success

\* the deferred Close is registered only past the err check
RestClosed(r) == IF r.err THEN 0 ELSE 1

RestGet(fn, api, message, success) ==
    \E r \in Answers(Exists(Endpoint(ownerType))), readOK \in BOOLEAN :
        /\ calls' = Append(calls,
                Closed(Call(fn, api, Endpoint(ownerType), r), RestClosed(r)))
        /\ Finish(RestReturn(r, readOK, message, StatusOK, success))

getProject ==
    /\ pc = "getProject"
    /\ RestGet("getProject", "GetProject", "failed to get project",
               JSONText(<<"project">>, NoData))
    /\ UNCHANGED <<args, srv, ownerType, loc>>

getProjectField ==
    /\ pc = "getProjectField"
    /\ RestGet("getProjectField", "GetProjectField", "failed to get project field",
               JSONText(<<"field">>, NoData))
    /\ UNCHANGED <<args, srv, ownerType, loc>>

getProjectItem ==
    /\ pc = "getProjectItem"
    /\ RestGet("getProjectItem", "GetProjectItem", "failed to get project item",
               JSONText(<<"item">>, NoData))
    /\ UNCHANGED <<args, srv, ownerType, loc>>

(***************************************************************************)
(* Lists.                                                                  *)
(***************************************************************************)
\* cursors a response may carry in resp.After / resp.Before
RespCursors == {0, 50}

\* buildPageInfo; NextCursor / PrevCursor are omitempty
buildPageInfo(after, before) ==
    [hasNextPage |-> after # 0, hasPreviousPage |-> before # 0,
     nextCursor |-> after, prevCursor |-> before]

\* variant: the cursor keys are always emitted
MarshalPageInfo_NoOmit(pi) ==
    [keys |-> {"hasNextPage", "hasPreviousPage", "nextCursor", "prevCursor"},
     hasNextPage |-> pi.hasNextPage, hasPreviousPage |-> pi.hasPreviousPage,
     nextCursor |-> pi.nextCursor, prevCursor |-> pi.prevCursor]

\* json.Marshal of a pageInfo by its struct tags: keys are the keys of the
\* JSON object; nextCursor and prevCursor are omitempty
MarshalPageInfo(pi) ==
    [keys |-> {"hasNextPage", "hasPreviousPage"}
                \cup (IF pi.nextCursor # 0 THEN {"nextCursor"} ELSE {})
                \cup (IF pi.prevCursor # 0 THEN {"prevCursor"} ELSE {}),
     hasNextPage |-> pi.hasNextPage, hasPreviousPage |-> pi.hasPreviousPage,
     nextCursor |-> pi.nextCursor, prevCursor |-> pi.prevCursor]

ListCall(fn, api, scope, opts, r, ra, rb) ==
    [Call(fn, api, scope, r) EXCEPT !.opts = opts,
        !.respAfter = IF r.resp THEN ra ELSE 0,
        !.respBefore = IF r.resp THEN rb ELSE 0]

\* The pattern of listProjects (one scope), listProjectFields and
\* listProjectItems: no status check after the err check.
ListOne(fn, api, message, data) ==
    \E r \in Answers(Exists(Endpoint(ownerType))), ra, rb \in RespCursors :
        LET c == ListCall(fn, api, Endpoint(ownerType),
                          extractPaginationOptionsFromArgs, r, ra, rb)
        IN  /\ calls' = Append(calls, Closed(c, RestClosed(r)))
            /\ Finish(IF r.err THEN APIError(message, r)
                      ELSE JSONText(<<"pageInfo">>,
                             [data EXCEPT !.pageInfo =
                                <<MarshalPageInfo(
                                    buildPageInfo(c.respAfter, c.respBefore))>>]))

\* variant: a project already collected is not appended again
AppendProjects_Dedup(minimal, projects, tag) ==
    LET fresh == SelectSeq(projects,
                    LAMBDA p : \A i \in DOMAIN minimal : minimal[i].id # p)
    IN  minimal \o [i \in 1..Len(fresh) |-> [id |-> fresh[i], owner_type |-> tag]]

\* for _, project := range projects { mp.OwnerType = tag; append }
AppendProjects(minimal, projects, tag) ==
    minimal \o [i \in 1..Len(projects) |-> [id |-> projects[i], owner_type |-> tag]]

\* what a scope's list call returns with a 200
ScopeProjects(scope) == IF scope = "org" THEN srv.orgProjects ELSE srv.userProjects

listProjects ==
    /\ pc = "listProjects"
    /\ ListOne("listProjects", "ListProjects", "failed to list projects",
               [NoData EXCEPT !.projects =
                    AppendProjects(<<>>, ScopeProjects(Endpoint(ownerType)), ownerType)])
    /\ UNCHANGED <<args, srv, ownerType, loc>>

listProjectFields ==
    /\ pc = "listProjectFields"
    /\ ListOne("listProjectFields", "ListProjectFields", "failed to list project fields",
               NoData)
    /\ UNCHANGED <<args, srv, ownerType, loc>>

listProjectItems ==
    /\ pc = "listProjectItems"
    /\ ListOne("listProjectItems", "ListProjectItems", "failed to list project items",
               NoData)
    /\ UNCHANGED <<args, srv, ownerType, loc>>

(***************************************************************************)
(* listProjectsFromBothOwnerTypes.                                         *)
(***************************************************************************)
\* userErr != nil || userResp == nil || userResp.StatusCode != http.StatusOK
ListFailed(r) == r.err \/ ~r.resp \/ r.status # StatusOK

\* variant: one failed call is enough
BothFailed_Either(userR, orgR) == ListFailed(userR) \/ ListFailed(orgR)

\* the condition of "If both failed, return error"
BothFailed(userR, orgR) == ListFailed(userR) /\ ListFailed(orgR)

\* which response resp points to: "org", "user" or "nil"
PageInfoSource(userR, orgR) ==
    IF IsOK(orgR) THEN "org" ELSE IF userR.resp THEN "user" ELSE "nil"

BothNote == "Results include both user and org projects"

listProjectsFromBothOwnerTypes_user ==
    /\ pc = "listBothUser"
    /\ \E r \in Answers(Exists("user")), ra, rb \in RespCursors :
          LET c == ListCall("listProjectsFromBothOwnerTypes", "ListProjects", "user",
                            extractPaginationOptionsFromArgs, r, ra, rb)
          IN  /\ calls' = Append(calls, Closed(c, IF IsOK(r) THEN 1 ELSE 0))
              /\ loc' = [loc EXCEPT !.minimalProjects =
                            IF IsOK(r)
                            THEN AppendProjects(<<>>, ScopeProjects("user"), "user")
                            ELSE <<>>]
    /\ pc' = "listBothOrg"
    /\ UNCHANGED <<args, srv, ownerType, result>>

listProjectsFromBothOwnerTypes_org ==
    /\ pc = "listBothOrg"
    /\ \E r \in Answers(Exists("org")), ra, rb \in RespCursors :
          LET user == calls[Len(calls)]
              c == ListCall("listProjectsFromBothOwnerTypes", "ListProjects", "org",
                            extractPaginationOptionsFromArgs, r, ra, rb)
              minimal == IF IsOK(r)
                         THEN AppendProjects(loc.minimalProjects, ScopeProjects("org"),
                                             "org")
                         ELSE loc.minimalProjects
              src == PageInfoSource(user.r, r)
              failed == BothFailed(user.r, r)
              \* defer func() { _ = resp.Body.Close() }() on the success path
              user2 == IF ~failed /\ src = "user"
                       THEN Closed(user, user.closed + 1) ELSE user
              c2 == IF ~failed /\ src = "org" THEN Closed(c, 1) ELSE c
              info == IF src = "org"
                      THEN <<MarshalPageInfo(
                                buildPageInfo(c.respAfter, c.respBefore))>>
                      ELSE IF src = "user"
                      THEN <<MarshalPageInfo(
                                buildPageInfo(user.respAfter, user.respBefore))>>
                      ELSE <<>>
          IN  /\ calls' = Append([calls EXCEPT ![Len(calls)] = user2], c2)
              /\ loc' = [loc EXCEPT !.minimalProjects = minimal]
              /\ Finish(IF failed
                        THEN ToolError(<<"failed to list projects for owner",
                                         "not found as user or organization">>)
                        ELSE JSONText(<<"projects", "note", BothNote>>,
                                [NoData EXCEPT !.projects = minimal, !.note = TRUE,
                                               !.pageInfo = info]))
    /\ UNCHANGED <<args, srv, ownerType>>

(***************************************************************************)
(* updateProjectItem and deleteProjectItem, and what their callers do with *)
(* the return values.                                                      *)
(***************************************************************************)
ProjectUpdateFailedError == "failed to update a project item"
ProjectAddFailedError == "failed to add a project item"
ProjectDeleteFailedError == "failed to delete a project item"

IsAssign == args.tool = "assign_issue_to_org_project"
IsByName == args.tool = "update_project_item_field_by_name"

\* priority, _ := OptionalParam[string](args, "priority"): "" on an error
Priority == IF "priority" \in args.bad THEN "" ELSE args.priority
Size == IF "size" \in args.bad THEN "" ELSE args.size
StageValue(stage) == IF stage = "Priority" THEN Priority ELSE Size

\* _, _, err = updateProjectItem(...); if err != nil { ... }
\* the callers look at the Go error only
UpdateErr(ret) == ret.kind = "goerr"

\* assignIssueToOrgProjectWithFields' result map, marshalled by the handler
AssignResult(numericID, updates) ==
    JSONText(<<"item_id", "message", "updates">>,
             [NoData EXCEPT !.item_id = numericID, !.updates = updates])

\* variant: the Size block before the Priority block
StageAfter_SizeFirst(stage) ==
    IF stage = "" /\ Size # "" THEN "Size"
    ELSE IF stage \in {"", "Size"} /\ Priority # "" THEN "Priority"
    ELSE "return"

\* setPriorityAndSize from the block of field stage on; "" is the entry
StageAfter(stage) ==
    IF stage = "" /\ Priority # "" THEN "Priority"
    ELSE IF stage \in {"", "Priority"} /\ Size # "" THEN "Size"
    ELSE "return"

\* go on with the next field of setPriorityAndSize, or return the result
NextStage(stage, updates) ==
    IF StageAfter(stage) = "return"
    THEN /\ Finish(AssignResult(loc.numericID, updates))
         /\ loc' = [loc EXCEPT !.updates = updates]
    ELSE /\ pc' = "resolve"
         /\ result' = result
         /\ loc' = [loc EXCEPT !.updates = updates, !.stage = StageAfter(stage)]

AfterUpdate(ret) ==
    IF IsAssign THEN
        IF UpdateErr(ret)
        THEN Finish(ToolError(<<"set", loc.stage>> \o ret.text)) /\ UNCHANGED loc
        ELSE NextStage(loc.stage,
                       Append(loc.updates, <<loc.stage, StageValue(loc.stage)>>))
    ELSE IF IsByName THEN
        /\ Finish(IF UpdateErr(ret) THEN ToolError(ret.text)
                  ELSE JSONText(<<"message", "Set", args.field_name, "to",
                                  args.option_name>>, NoData))
        /\ UNCHANGED loc
    ELSE Finish(ret) /\ UNCHANGED loc

\* variant: an update answered without an error is a success, whatever the
\* status
UpdateReturn_AnyStatus(r, readOK) ==
    IF r.err THEN APIError(ProjectUpdateFailedError, r)
    ELSE JSONText(<<"item">>, NoData)

\* updateProjectItem's return value after the call
UpdateReturn(r, readOK) ==
    RestReturn(r, readOK, ProjectUpdateFailedError, StatusOK,
               JSONText(<<"item">>, NoData))

updateProjectItem ==
    /\ pc = "update"
    /\ \E r \in Answers(Exists(Endpoint(ownerType))), readOK \in BOOLEAN :
          /\ calls' = Append(calls,
                [Closed(Call("updateProjectItem", "UpdateProjectItem",
                             Endpoint(ownerType), r), RestClosed(r))
                    EXCEPT !.payload = loc.payload])
          /\ AfterUpdate(UpdateReturn(r, readOK))
    /\ UNCHANGED <<args, srv, ownerType>>

deleteProjectItem ==
    /\ pc = "delete"
    /\ \E r \in Answers(Exists(Endpoint(ownerType))), readOK \in BOOLEAN :
          /\ calls' = Append(calls,
                Closed(Call("deleteProjectItem", "DeleteProjectItem",
                            Endpoint(ownerType), r), RestClosed(r)))
          /\ Finish(RestReturn(r, readOK, ProjectDeleteFailedError, StatusNoContent,
                               PlainText(<<"project item successfully deleted">>)))
    /\ UNCHANGED <<args, srv, ownerType, loc>>

(***************************************************************************)
(* addProjectItem: content node ID, project node ID, mutation.             *)
(***************************************************************************)
GQL(ok) == Resp(~ok, FALSE, 0)

GQLCall(fn, api, scope, input, ok) ==
    [Call(fn, api, scope, GQL(ok)) EXCEPT !.input = input]

\* itemType passed to addProjectItem
ItemType == IF IsAssign THEN "issue" ELSE args.item_type

\* variant: any result of addProjectItem is taken as an added item
AddWellFormed_AnyResult(addResult) == addResult.kind # "goerr"

\* assignIssueToOrgProjectWithFields after addProjectItem returned addResult:
\* an error text does not start with '{'
AddWellFormed(addResult) ==
    /\ addResult.kind # "goerr"
    /\ Len(addResult.text) > 0 => addResult.text[1] = "{"

AfterAdd(addResult) ==
    IF IsAssign THEN
        IF addResult.kind = "goerr"
        THEN Finish(ToolError(<<"add issue to project", "no result">>))
        ELSE IF ~AddWellFormed(addResult)
        THEN Finish(ToolError(<<"add issue to project">> \o addResult.text))
        ELSE pc' = "scan" /\ result' = result
    ELSE Finish(addResult)

\* itemNumber passed to addProjectItem
ItemNumber ==
    IF ItemType = "issue" THEN args.issue_number ELSE args.pull_request_number

\* the platform's node IDs: of an issue or pull request, and of the project
\* of a scope
ContentNodeID(itemType, owner, repo, number) == <<itemType, owner, repo, number>>
ProjectNodeID(scope) == <<"project", scope>>

\* variant: the two IDs in each other's place
AddInput_Swapped(projectID, nodeID) == <<nodeID, projectID>>

\* githubv4.AddProjectV2ItemByIdInput{ProjectID: projectID, ContentID: nodeID}
AddInput(projectID, nodeID) == <<projectID, nodeID>>

addProjectItem_resolve ==
    /\ pc = "addResolve"
    /\ \E ok \in BOOLEAN :
          LET id == IF ok
                    THEN ContentNodeID(ItemType, args.item_owner, args.item_repo,
                                       ItemNumber)
                    ELSE <<>>
          IN
          /\ calls' = Append(calls,
                [GQLCall(IF ItemType = "issue" THEN "resolveIssueNodeID"
                         ELSE "resolvePullRequestNodeID",
                         "Query", "repository",
                         <<args.item_owner, args.item_repo, ItemNumber>>, ok)
                    EXCEPT !.id = id])
          /\ IF ok
             THEN /\ pc' = "addProjectID" /\ result' = result
                  /\ loc' = [loc EXCEPT !.nodeID = id]
             ELSE /\ AfterAdd(ToolError(<<"failed to resolve", ItemType>>))
                  /\ UNCHANGED loc
    /\ UNCHANGED <<args, srv, ownerType>>

addProjectItem_projectID ==
    /\ pc = "addProjectID"
    /\ \E ok \in BOOLEAN :
          /\ calls' = Append(calls,
                [GQLCall("addProjectItem", "Query", Endpoint(ownerType),
                         <<"owner", "projectNumber">>, ok)
                    EXCEPT !.id = IF ok THEN ProjectNodeID(Endpoint(ownerType))
                                  ELSE <<>>])
          /\ IF ok
             THEN /\ pc' = "addMutate" /\ result' = result
                  /\ loc' = [loc EXCEPT !.projectID =
                                            ProjectNodeID(Endpoint(ownerType))]
             ELSE /\ AfterAdd(ToolError(<<"failed to get project ID">>))
                  /\ UNCHANGED loc
    /\ UNCHANGED <<args, srv, ownerType>>

addProjectItem_mutate ==
    /\ pc = "addMutate"
    /\ \E ok \in BOOLEAN :
          /\ calls' = Append(calls,
                GQLCall("addProjectItem", "Mutate", "addProjectV2ItemById",
                        AddInput(loc.projectID, loc.nodeID), ok))
          /\ AfterAdd(IF ok THEN JSONText(<<"id", "message">>, NoData)
                      ELSE ToolError(<<ProjectAddFailedError>>))
    /\ UNCHANGED <<args, srv, ownerType, loc>>

AssignIssueToOrgProject ==
    /\ pc = "start" /\ IsAssign
    /\ Goto(Check(<<"org", "project_number", "item_owner", "item_repo", "issue_number",
                    "gqlClient", "client">>, To("addResolve")))
    \* addProjectItem, findProjectItemIDByIssue and setPriorityAndSize get "org"
    /\ ownerType' = "org"
    /\ UNCHANGED <<args, srv, calls>>

(***************************************************************************)
(* findProjectItemIDByIssue: one action per iteration of its loop.         *)
(***************************************************************************)
\* The platform's item at position i: the requested issue's item at srv.tp,
\* items of other issues elsewhere.  id 0: ID is nil; number 0: Number is
\* nil; repoName / repoOwner "": the pointer is nil.
Item(id, isIssue, number, hasRepo, repoName, repoOwner) ==
    [id |-> id, isIssue |-> isIssue, number |-> number, hasRepo |-> hasRepo,
     repoName |-> repoName, repoOwner |-> repoOwner]

\* the item at dp: the requested issue's number, and one difference
DecoyItem(kind, i) ==
    LET same == Item(1000 + i, TRUE, args.issue_number, TRUE, args.item_repo,
                     args.item_owner)
    IN  CASE kind = "otherRepo" -> [same EXCEPT !.repoName = "other"]
          [] kind = "otherOwner" -> [same EXCEPT !.repoOwner = "other"]
          [] kind = "noRepo" -> [same EXCEPT !.hasRepo = FALSE, !.repoName = "",
                                             !.repoOwner = ""]
          [] kind = "noRepoName" -> [same EXCEPT !.repoName = ""]
          [] kind = "noRepoOwner" -> [same EXCEPT !.repoOwner = ""]
          [] kind = "noID" -> [same EXCEPT !.id = 0]
          [] kind = "pullRequest" -> [same EXCEPT !.isIssue = FALSE]
          [] OTHER -> [same EXCEPT !.number = 0]

ItemAt(i) ==
    IF i = srv.tp
    THEN Item(1000 + i, TRUE, args.issue_number, TRUE, args.item_repo, args.item_owner)
    ELSE IF srv.decoy # "none" /\ i = srv.dp THEN DecoyItem(srv.decoy, i)
    ELSE Item(1000 + i, TRUE, args.issue_number + i, TRUE, args.item_repo,
              args.item_owner)

\* the platform's page for the options: positions, and the cursor resp.After
PageStart(opts) == IF opts.afterSet THEN opts.after ELSE 0
PageEnd(opts) ==
    IF PageStart(opts) + opts.perPage < srv.nItems
    THEN PageStart(opts) + opts.perPage ELSE srv.nItems
PagePositions(opts) == (PageStart(opts) + 1) .. PageEnd(opts)
PageAfter(opts) == IF PageEnd(opts) < srv.nItems THEN PageEnd(opts) ELSE 0

\* the body of "for _, item := range items": the item is returned
ItemMatches(item, repoOwner, repoName, issueNumber) ==
    /\ item.id # 0
    /\ item.isIssue
    /\ item.number # 0 /\ item.number = issueNumber
    /\ item.hasRepo =>
          /\ item.repoName # "" => item.repoName = repoName
          /\ item.repoOwner # "" => item.repoOwner = repoOwner

\* positions of the page whose item the loop would return
Matching(positions) ==
    {i \in positions :
        ItemMatches(ItemAt(i), args.item_owner, args.item_repo, args.issue_number)}

Min(S) == CHOOSE x \in S : \A y \in S : x <= y

\* opts of the call of iteration loc.page
ScanOpts ==
    [NoOpts EXCEPT !.perPage = ScanPerPage, !.afterSet = loc.after # 0,
                   !.after = loc.after]

ScanNotFound ==
    ToolError(<<"find project item id", "project item for issue",
                "not found (list may be paginated)">>)

\* variant: one more iteration
ScanContinues_OneMore(page) == page + 1 <= ScanMaxPages

\* for page := 0; page < 5; page++: is there another iteration
ScanContinues(page) == page + 1 < ScanMaxPages

findProjectItemIDByIssue ==
    /\ pc = "scan"
    /\ \E r \in Answers(Exists(Endpoint(ownerType))) :
          LET found == IF IsOK(r) THEN Matching(PagePositions(ScanOpts)) ELSE {}
              after == IF IsOK(r) THEN PageAfter(ScanOpts) ELSE 0
              c == [Call("findProjectItemIDByIssue", "ListProjectItems",
                         Endpoint(ownerType), r)
                        EXCEPT !.opts = ScanOpts, !.respAfter = after]
          IN  /\ calls' = Append(calls, Closed(c, RestClosed(r)))
              /\ IF r.err THEN
                    /\ Finish(ToolError(<<"find project item id", "list error">>))
                    /\ UNCHANGED loc
                 ELSE IF found # {} THEN
                    \* return *item.ID, then the rest of
                    \* assignIssueToOrgProjectWithFields
                    /\ IF StageAfter("") = "return"
                       THEN Finish(AssignResult(ItemAt(Min(found)).id, <<>>))
                       ELSE pc' = "resolve" /\ result' = result
                    /\ loc' = [loc EXCEPT !.numericID = ItemAt(Min(found)).id,
                                          !.stage = IF StageAfter("") = "return"
                                                    THEN "" ELSE StageAfter("")]
                 ELSE IF after = 0 \/ ~ScanContinues(loc.page) THEN
                    /\ Finish(ScanNotFound)
                    /\ loc' = [loc EXCEPT !.after = after,
                                          !.page = IF after = 0
                                                   THEN loc.page ELSE loc.page + 1]
                 ELSE
                    /\ pc' = "scan" /\ result' = result
                    /\ loc' = [loc EXCEPT !.after = after, !.page = loc.page + 1]
    /\ UNCHANGED <<args, srv, ownerType>>

(***************************************************************************)
(* resolveSingleSelectOptionByName.                                        *)
(***************************************************************************)
Resolved(optionID, fieldID) == [err |-> <<>>, optionID |-> optionID, fieldID |-> fieldID]
ResolveError(text) == [err |-> text, optionID |-> "", fieldID |-> 0]

\* variant: the first option with an ID is taken
OptionMatches_Any(opt, optionName) == TRUE

\* optName == optionName, optName being "" for an option without a name
OptionMatches(opt, optionName) == opt.name = optionName

\* for _, opt := range f.Options
RECURSIVE ScanOptions(_, _, _, _)
ScanOptions(options, f, fieldName, optionName) ==
    IF options = <<>>
    THEN ResolveError(<<"option", optionName, "not found in field", fieldName>>)
    ELSE IF Head(options).id = "" THEN
        ScanOptions(Tail(options), f, fieldName, optionName)
    ELSE IF OptionMatches(Head(options), optionName)
    THEN Resolved(Head(options).id, f.id)
    ELSE ScanOptions(Tail(options), f, fieldName, optionName)

\* for _, f := range fields
RECURSIVE ScanFields(_, _, _)
ScanFields(fields, fieldName, optionName) ==
    IF fields = <<>>
    THEN ResolveError(<<"field", fieldName, "not found in project">>)
    ELSE IF Head(fields).name # fieldName THEN
        ScanFields(Tail(fields), fieldName, optionName)
    ELSE IF Head(fields).id = 0 THEN ScanFields(Tail(fields), fieldName, optionName)
    ELSE ScanOptions(Head(fields).options, Head(fields), fieldName, optionName)

ResolveOpts == [NoOpts EXCEPT !.perPage = ResolvePerPage]

\* the names the caller resolves
ResolveField == IF IsAssign THEN loc.stage ELSE args.field_name
ResolveOption == IF IsAssign THEN StageValue(loc.stage) ELSE args.option_name

\* variant: the added item is deleted when an option cannot be resolved
AfterResolveError_Rollback(text) == pc' = "delete" /\ result' = result

\* variant: the field list is fetched again when a resolution fails
AfterResolveError_Retry(text) == pc' = "resolve" /\ result' = result

\* the callers' "if err != nil" after resolveSingleSelectOptionByName
AfterResolveError(text) ==
    Finish(ToolError(IF IsAssign THEN <<loc.stage>> \o text ELSE text))

\* variant: the fields of the invocation's first successful list call are
\* kept and used again
FieldsScanned_Memoized(fields) ==
    LET earlier == SelectSeq(calls,
                       LAMBDA c : c.fn = "resolveSingleSelectOptionByName" /\ IsOK(c.r))
    IN  IF earlier # <<>> THEN earlier[1].listed ELSE fields

\* for _, f := range fields: the fields of this call's response
FieldsScanned(fields) == fields

\* Another client changes the project's fields while the invocation is
\* between two calls (once; only the resolver reads the fields, so the
\* change is placed before a call of it).
PlatformChangesFields ==
    /\ pc = "resolve" /\ ~srv.changed
    /\ \E f \in FieldChanges \ {srv.fields} :
          srv' = [srv EXCEPT !.fields = f, !.changed = TRUE]
    /\ UNCHANGED <<args, pc, ownerType, calls, result, loc>>

resolveSingleSelectOptionByName ==
    /\ pc = "resolve"
    /\ \E r \in Answers(Exists(Endpoint(ownerType))) :
          LET fields == IF IsOK(r) THEN srv.fields ELSE <<>>
              c == [Call("resolveSingleSelectOptionByName", "ListProjectFields",
                         Endpoint(ownerType), r)
                        EXCEPT !.opts = ResolveOpts, !.listed = fields]
              res == ScanFields(FieldsScanned(fields), ResolveField, ResolveOption)
          IN  /\ calls' = Append(calls, Closed(c, RestClosed(r)))
              /\ IF r.err THEN
                    AfterResolveError(<<"list fields error">>) /\ UNCHANGED loc
                 ELSE IF res.err # <<>> THEN
                    AfterResolveError(res.err) /\ UNCHANGED loc
                 ELSE
                    /\ pc' = "update" /\ result' = result
                    /\ loc' = [loc EXCEPT !.optionID = res.optionID,
                                          !.fieldID = res.fieldID,
                                          !.payload = buildUpdateProjectItem(
                                              NamedFieldValue(res.fieldID,
                                                              res.optionID)).payload]
    /\ UNCHANGED <<args, srv, ownerType>>

(***************************************************************************)
(* The specification.                                                      *)
(***************************************************************************)
Next ==
    \/ ProjectsList
    \/ ProjectsGet
    \/ ProjectsWrite
    \/ AssignIssueToOrgProject
    \/ UpdateProjectItemFieldByNames
    \/ detectOwnerType_user
    \/ detectOwnerType_org
    \/ getProject
    \/ getProjectField
    \/ getProjectItem
    \/ listProjects
    \/ listProjectFields
    \/ listProjectItems
    \/ listProjectsFromBothOwnerTypes_user
    \/ listProjectsFromBothOwnerTypes_org
    \/ updateProjectItem
    \/ deleteProjectItem
    \/ addProjectItem_resolve
    \/ addProjectItem_projectID
    \/ addProjectItem_mutate
    \/ findProjectItemIDByIssue
    \/ resolveSingleSelectOptionByName
    \/ PlatformChangesFields

Spec == Init /\ [][Next]_vars

(***************************************************************************)
(* Properties.                                                             *)
(***************************************************************************)
Done == pc = "done"
IsProbe(c) == c.fn = "detectOwnerType"
Probes == SelectSeq(calls, IsProbe)
IsUpdateCall(c) == c.fn = "updateProjectItem"
\* a transport error or a non-success status
Unsuccessful(r) == r.err \/ r.status # 200

\* C1: in assign_issue_to_org_project, an update call for Priority or Size
\* that got a transport error or a non-success status ends the workflow: it
\* is the last upstream call, and the handler returns an error naming that
\* field, not a success result.
C1_FailedUpdateAborts ==
    IsAssign =>
        \A i \in DOMAIN calls :
            (IsUpdateCall(calls[i]) /\ Unsuccessful(calls[i].r)) =>
                /\ i = Len(calls)
                /\ Done
                /\ result.kind = "error"
                /\ result.text[1] = "set"
                /\ result.text[2] = loc.stage

\* C2: update_project_item_field_by_name returns its "Set <field> to
\* <option>" confirmation only when the update call succeeded upstream; an
\* update that got a transport error or a non-success status gives a
\* failure.
C2_ConfirmationOnlyAfterSuccess ==
    (IsByName /\ Done /\ calls # <<>> /\ IsUpdateCall(calls[Len(calls)])) =>
        IF Unsuccessful(calls[Len(calls)].r)
        THEN result.kind # "text"
        ELSE result.kind = "text" /\ result.text[3] = "Set"

\* C3: detectOwnerType probes the user scope before the org scope.  A
\* successful user probe returns "user" and no org probe is issued, also
\* when the project exists under the org scope too; "org" is returned only
\* after exactly two probes, user then org; and for a project of the org
\* scope only, a successful org probe returns "org".
C3_UserProbedBeforeOrg ==
    /\ Len(Probes) <= 2
    /\ Probes = SubSeq(calls, 1, Len(Probes))
    /\ Len(Probes) >= 1 => Probes[1].scope = "user" /\ Probes[1].api = "GetProject"
    /\ Len(Probes) = 2 =>
          /\ Probes[2].scope = "org" /\ Probes[2].api = "GetProject"
          /\ Unsuccessful(Probes[1].r)
    /\ (Len(Probes) >= 1 /\ ~Unsuccessful(Probes[1].r)) =>
          Len(Probes) = 1 /\ ownerType = "user"
    /\ (args.owner_type = "" /\ ownerType = "org" /\ ~IsAssign) => Len(Probes) = 2
    /\ (~srv.userHas /\ srv.orgHas /\ Len(Probes) = 2 /\ ~Unsuccessful(Probes[2].r)) =>
          ownerType = "org"

\* C3 witness: a project of the org scope only was resolved to "org" by two
\* probes.
C3_Witness ==
    /\ ~srv.userHas /\ srv.orgHas
    /\ Len(Probes) = 2
    /\ ownerType = "org"
    /\ Done

\* C4: an error on the user probe, with or without a response, does not end
\* the detection: the org probe is the next call, and the detection error is
\* returned only after both probes were unsuccessful.
C4_UserProbeErrorFallsThrough ==
    /\ (Len(Probes) = 1 /\ Unsuccessful(Probes[1].r)) =>
          pc = "detectOrg" /\ result = NoResult
    /\ result = DetectError =>
          /\ Len(Probes) = 2
          /\ Unsuccessful(Probes[1].r)
          /\ Unsuccessful(Probes[2].r)
          /\ result.text = <<"could not determine owner type", "owner", "project_number">>

\* C4 witness: the user probe got a transport error without a response and
\* the org probe then resolved the owner.
C4_Witness ==
    /\ Len(Probes) = 2
    /\ Probes[1].r.err /\ ~Probes[1].r.resp
    /\ ownerType = "org"

\* C5: when both probes of an invocation that detects the owner kind were
\* unsuccessful (as they are when the project is under neither scope), the
\* operation returns the resolution error and the two probes are its only
\* upstream calls.
C5_NoCallAfterFailedResolution ==
    /\ (Len(Probes) = 2 /\ Unsuccessful(Probes[1].r) /\ Unsuccessful(Probes[2].r)) =>
          /\ Done
          /\ result = DetectError
          /\ Len(calls) = 2
    /\ (~srv.userHas /\ ~srv.orgHas /\ Probes # <<>> /\ Done) =>
          result = DetectError /\ calls = Probes

\* C5 witness: a projects_write invocation on a project under neither scope
\* ended after its two probes.
C5_Witness ==
    /\ ~srv.userHas /\ ~srv.orgHas
    /\ args.tool = "projects_write" /\ args.method = "delete_project_item"
    /\ args.bad = {}
    /\ Len(Probes) = 2
    /\ Done

\* the result reports a malformed or missing argument
IsValidationError(res) ==
    /\ res.kind = "error"
    /\ \/ res.text[1] \in {"unknown method", "issue_number is required",
                           "pull_request_number is required",
                           "item_type must be either", "updated_field.id is required",
                           "updated_field.id: value must be a number",
                           "updated_field.value is required"}
       \/ res.text[1] = "invalid parameter" /\ res.text[2] \notin {"client", "gqlClient"}

\* C6: a malformed or missing argument (an unknown method and the
\* method-specific arguments included) is reported before any upstream call:
\* an invocation that returns a validation error has issued no call.
C6_ValidationBeforeAnyCall ==
    (Done /\ IsValidationError(result)) => calls = <<>>

IsDualList ==
    /\ args.tool = "projects_list" /\ args.method = "list_projects"
    /\ args.owner_type = "" /\ Done /\ Len(calls) = 2
Tagged(projects, tag) ==
    [i \in 1..Len(projects) |-> [id |-> projects[i], owner_type |-> tag]]

\* C7: list_projects without owner_type fails only when both the user and
\* the org list call were unsuccessful; when exactly one was, the result is
\* a success holding exactly the other scope's projects and the note.
C7_DualListFailsOnlyIfBothFail ==
    IsDualList =>
        LET u == calls[1].r
            o == calls[2].r
        IN  /\ result.kind = "error" <=> (Unsuccessful(u) /\ Unsuccessful(o))
            /\ result.kind # "error" => result.kind = "text" /\ result.data.note
            /\ (~Unsuccessful(u) /\ Unsuccessful(o)) =>
                  result.data.projects = Tagged(srv.userProjects, "user")
            /\ (Unsuccessful(u) /\ ~Unsuccessful(o)) =>
                  result.data.projects = Tagged(srv.orgProjects, "org")

\* C7 witness: the org call failed and the user's projects were returned.
C7_Witness ==
    /\ IsDualList
    /\ ~Unsuccessful(calls[1].r) /\ Unsuccessful(calls[2].r)
    /\ Len(srv.userProjects) = 2 /\ Len(srv.orgProjects) > 0
    /\ result.kind = "text"

\* C8: list_projects without owner_type, both list calls successful: as many
\* projects are returned as the two scopes list together, the user scope's
\* tagged "user" and the org scope's tagged "org".
C8_DualListUnionTagged ==
    (IsDualList /\ ~Unsuccessful(calls[1].r) /\ ~Unsuccessful(calls[2].r)) =>
        /\ result.kind = "text"
        /\ Len(result.data.projects) = Len(srv.userProjects) + Len(srv.orgProjects)
        /\ result.data.projects =
              Tagged(srv.userProjects, "user") \o Tagged(srv.orgProjects, "org")

\* C8 witness: both scopes list the same project and both calls succeeded.
C8_Witness ==
    /\ IsDualList /\ ~Unsuccessful(calls[1].r) /\ ~Unsuccessful(calls[2].r)
    /\ Len(srv.userProjects) > 0 /\ Len(srv.orgProjects) > 0
    /\ srv.userProjects[1] = srv.orgProjects[1]

IsListEndpointCall(c) ==
    c.fn \in {"listProjects", "listProjectsFromBothOwnerTypes", "listProjectFields",
              "listProjectItems"}

\* C9: the list endpoints send a page size of at most 50 upstream: 50 when
\* per_page is absent or larger than 50, the requested value otherwise; and a
\* per_page larger than 50 is not reported as an invalid argument: unless the
\* owner kind could not be detected, the list call is issued.
C9_PageSizeClamped ==
    /\ \A i \in DOMAIN calls :
          IsListEndpointCall(calls[i]) =>
              /\ calls[i].opts.perPage <= 50
              /\ calls[i].opts.perPage =
                    IF args.per_page = 0 \/ args.per_page > 50 THEN 50
                    ELSE args.per_page
    /\ (args.per_page > 50 /\ args.bad = {} /\ Done) =>
          /\ ~IsValidationError(result)
          /\ result = DetectError \/ \E i \in DOMAIN calls : IsListEndpointCall(calls[i])

\* C9 witness: per_page 100 was sent as 50 by list_project_items.
C9_Witness ==
    /\ args.per_page = 100
    /\ \E i \in DOMAIN calls :
          calls[i].fn = "listProjectItems" /\ calls[i].opts.perPage = 50
    /\ result.kind = "text"

IsScanCall(c) == c.fn = "findProjectItemIDByIssue"
ScanCalls == SelectSeq(calls, IsScanCall)
\* the scan has returned, and every list call of it got a 200
ScanReturned == ScanCalls # <<>> /\ pc # "scan"
ScanAllOK == \A i \in DOMAIN ScanCalls : ~Unsuccessful(ScanCalls[i].r)

\* C10: the item scan issues at most 5 list calls of page size 50, the first
\* without a cursor and each later one with the forward cursor of the
\* response before it; an issue within the first 250 items is found and its
\* item ID returned; otherwise the scan fails with the not-found error,
\* after the 5th call or as soon as a response has no forward cursor (the
\* project holding one item at most for an issue of the requested number).
C10_ScanBounded ==
    /\ Len(ScanCalls) <= 5
    /\ \A i \in DOMAIN ScanCalls :
          /\ ScanCalls[i].api = "ListProjectItems"
          /\ ScanCalls[i].opts.perPage = 50
          /\ i = 1 => ~ScanCalls[i].opts.afterSet
          /\ i > 1 =>
                /\ ScanCalls[i - 1].respAfter # 0
                /\ ScanCalls[i].opts.afterSet
                /\ ScanCalls[i].opts.after = ScanCalls[i - 1].respAfter
    /\ (ScanReturned /\ ScanAllOK /\ srv.decoy = "none") =>
          IF srv.tp \in 1..250 /\ srv.tp <= srv.nItems
          THEN /\ loc.numericID = 1000 + srv.tp
               /\ Len(ScanCalls) = ((srv.tp - 1) \div 50) + 1
               /\ result # ScanNotFound
          ELSE /\ result = ScanNotFound
               /\ result.text[3] = "not found (list may be paginated)"
               /\ Len(ScanCalls) = 5 \/ ScanCalls[Len(ScanCalls)].respAfter = 0

\* C10 witness: the issue's item is the 51st, on page 2, and was found by the
\* second list call.
C10_Witness ==
    /\ srv.tp = 51
    /\ ScanReturned /\ Len(ScanCalls) = 2
    /\ loc.numericID = 1051

\* the scan gave up after 5 pages although a forward cursor remained
C10_WitnessBound ==
    /\ ScanReturned /\ Len(ScanCalls) = 5
    /\ ScanCalls[5].respAfter # 0
    /\ result = ScanNotFound

\* the item the scan returned, by its ID
ReturnedItem == ItemAt(loc.numericID - 1000)

\* C11: whenever the item scan returns an item ID, that item's content is an
\* issue of the requested number whose repository is known and has the
\* requested name and owner; an item for a same-numbered issue of another or
\* of an unknown repository is never returned.
C11_ScanMatchesRepoAndNumber ==
    (ScanReturned /\ loc.numericID # 0) =>
        /\ ReturnedItem.isIssue
        /\ ReturnedItem.number = args.issue_number
        /\ ReturnedItem.hasRepo
        /\ ReturnedItem.repoName = args.item_repo
        /\ ReturnedItem.repoOwner = args.item_owner

IsGQLCall(c) == c.api \in {"Query", "Mutate"}
\* a call that lists items or fields, or updates an item
IsRestWorkflowCall(c) ==
    c.fn \in {"findProjectItemIDByIssue", "resolveSingleSelectOptionByName",
              "updateProjectItem"}

\* C12: in assign_issue_to_org_project, a failure of the content-ID query,
\* of the project-ID query or of the add mutation ends the workflow: the
\* failed call is the last upstream call, no list-items, list-fields or
\* update call was issued, and the handler returns an error of the add step.
C12_FailedAddFailsHard ==
    IsAssign =>
        \A i \in DOMAIN calls :
            (IsGQLCall(calls[i]) /\ calls[i].r.err) =>
                /\ i = Len(calls)
                /\ Done
                /\ result.kind = "error"
                /\ result.text[1] = "add issue to project"
                /\ \A j \in DOMAIN calls : ~IsRestWorkflowCall(calls[j])

\* C12 witness: the add mutation failed after both queries succeeded, with a
\* priority to set, and the workflow ended there.
C12_Witness ==
    /\ IsAssign /\ Priority # ""
    /\ Len(calls) = 3
    /\ calls[3].api = "Mutate" /\ calls[3].r.err
    /\ Done /\ result.kind = "error"

\* the add mutation of the workflow succeeded: the item is in the project
ItemAdded ==
    \E i \in DOMAIN calls : calls[i].api = "Mutate" /\ ~calls[i].r.err
\* the steps after the add, as the error texts name them
LaterSteps == {"find project item id", "Priority", "Size", "set"}
\* the result tells that the issue was added (or which fields were set):
\* in its text, or by carrying the item or the updates done
StatesEarlierEffects(res) ==
    \/ \E i \in DOMAIN res.text :
          res.text[i] \in {"Added issue", "item_id", "updates", "message"}
    \/ res.data.item_id # 0
    \/ res.data.updates # <<>>

\* C13: when assign_issue_to_org_project fails in a step after the issue was
\* added (item scan, option resolution or field update), the returned error
\* names the failed step and states that the earlier effects persist.
C13_PartialFailureReported ==
    (IsAssign /\ ItemAdded /\ Done /\ result.kind = "error") =>
        /\ result.text[1] \in LaterSteps
        /\ StatesEarlierEffects(result)

IsResolveCall(c) == c.fn = "resolveSingleSelectOptionByName"
\* the resolver has just returned from a field list it got with a 200
JustResolved ==
    /\ calls # <<>>
    /\ IsResolveCall(calls[Len(calls)])
    /\ ~Unsuccessful(calls[Len(calls)].r)
\* the listed fields of the name, and the options of a field of the name
FieldsNamed(name) == {i \in DOMAIN srv.fields : srv.fields[i].name = name}
OptionsNamed(i, name) ==
    {j \in DOMAIN srv.fields[i].options : srv.fields[i].options[j].name = name}
\* the error text the caller passes on, without the caller's prefix
ResolverText ==
    IF IsAssign THEN SubSeq(result.text, 2, Len(result.text)) ELSE result.text

\* C14: the resolver, over the fields the list call returned: a field of
\* exactly the name with an option of exactly the name gives that option's ID
\* and the field's ID, which go into the update; no field of the name gives
\* the field-not-found error naming the field; a field of the name without
\* the option gives the option-not-found error naming option and field.
\* On the fields [Priority 42: High opt1, Low opt2]: (Priority, High) gives
\* (opt1, 42), (Priority, Medium) option-not-found, (Status, High)
\* field-not-found.
C14_ResolverByExactNames ==
    /\ JustResolved =>
          IF FieldsNamed(ResolveField) = {} THEN
              /\ Done /\ result.kind = "error"
              /\ ResolverText = <<"field", ResolveField, "not found in project">>
          ELSE IF \A i \in FieldsNamed(ResolveField) :
                      OptionsNamed(i, ResolveOption) = {} THEN
              /\ Done /\ result.kind = "error"
              /\ ResolverText =
                    <<"option", ResolveOption, "not found in field", ResolveField>>
          ELSE
              /\ pc = "update" /\ result = NoResult
              /\ \E i \in FieldsNamed(ResolveField) :
                    \E j \in OptionsNamed(i, ResolveOption) :
                        /\ loc.fieldID = srv.fields[i].id
                        /\ loc.optionID = srv.fields[i].options[j].id
                        /\ Len(loc.payload) = 1
                        /\ loc.payload[1].fieldID = srv.fields[i].id
                        /\ loc.payload[1].value = srv.fields[i].options[j].id
    /\ ScanFields(FieldsPriority, "Priority", "High") = Resolved("opt1", 42)
    /\ ScanFields(FieldsPriority, "Priority", "Medium").err =
          <<"option", "Medium", "not found in field", "Priority">>
    /\ ScanFields(FieldsPriority, "Status", "High").err =
          <<"field", "Status", "not found in project">>

\* C14 witness: update_project_item_field_by_name asked for (Priority,
\* Medium) on a project whose Priority field has High and Low, and got the
\* option-not-found error.
C14_Witness ==
    /\ IsByName /\ JustResolved
    /\ args.field_name = "Priority" /\ args.option_name = "Medium"
    /\ srv.fields = FieldsPriority
    /\ result.kind = "error" /\ result.text[1] = "option"

\* the resolver returned (opt1, 42) for (Priority, High)
C14_WitnessFound ==
    /\ JustResolved /\ ResolveField = "Priority" /\ ResolveOption = "High"
    /\ loc.optionID = "opt1" /\ loc.fieldID = 42 /\ pc = "update"

LastCall == calls[Len(calls)]
IsDeleteCall(c) == c.fn = "deleteProjectItem"
DeleteReturned == Done /\ calls # <<>> /\ IsDeleteCall(LastCall)

\* C15: delete_project_item reports success if and only if the delete call
\* came back without an error and with status 204.  A 200 is a failure, as is
\* an error status or a transport error; the failure carries the upstream
\* status, and the body of a response that came without an error (when the
\* body could be read).
C15_DeleteSucceedsOnlyOn204 ==
    DeleteReturned =>
        LET r == LastCall.r
        IN  /\ result.kind = "text" <=> (~r.err /\ r.status = StatusNoContent)
            /\ result.kind = "text" =>
                  result.text = <<"project item successfully deleted">>
            /\ result.kind # "text" =>
                  /\ result.kind \in {"error", "goerr"}
                  /\ result.kind = "error" =>
                        /\ result.status = r.status
                        /\ result.text[1] = ProjectDeleteFailedError
                        /\ ~r.err => result.text[2] = "body"
                  /\ result.kind = "goerr" =>
                        ~r.err /\ result.text = <<"failed to read response body">>

\* C15 witness: the delete call was answered 200 and the result is the
\* failure with status 200 and the body.
C15_Witness ==
    /\ DeleteReturned
    /\ ~LastCall.r.err /\ LastCall.r.status = StatusOK
    /\ result.kind = "error" /\ result.status = StatusOK
    /\ result.text = <<ProjectDeleteFailedError, "body">>

IsUpdateItem == args.tool = "projects_write" /\ args.method = "update_project_item"
\* the result is one of buildUpdateProjectItem's errors
IsFieldValidationError(res) ==
    /\ res.kind = "error"
    /\ \/ res.text[1] \in {"updated_field.id is required",
                           "updated_field.id: value must be a number",
                           "updated_field.value is required"}
       \/ res.text = <<"invalid parameter", "updated_field">>
       \/ res.text = <<"invalid parameter", "updated_field_object">>

C16_WitnessValidation ==
    /\ IsUpdateItem /\ Done /\ args.uf_id = "missing" /\ args.owner_type = "org"
    /\ IsFieldValidationError(result) /\ calls = <<>>

UpdateCalls == SelectSeq(calls, IsUpdateCall)
\* the result is one of buildUpdateProjectItem's errors
IsBuildError(res) ==
    /\ res.kind = "error"
    /\ res.text[1] \in {"updated_field.id is required",
                        "updated_field.id: value must be a number",
                        "updated_field.value is required"}

\* C17: update_project_item sends a payload of exactly one field entry, the
\* field ID and the value of updated_field.  A null value is sent as the
\* entry with value null: it is not rejected and the update call is issued.
\* An updated_field object is rejected exactly when it has no "value" key or
\* its "id" is missing or not an integer.
C17_NullValueClearsField ==
    IsUpdateItem =>
        /\ \A i \in DOMAIN UpdateCalls :
              /\ Len(UpdateCalls[i].payload) = 1
              /\ UpdateCalls[i].payload[1].fieldID = ArgFieldValue.id
              /\ UpdateCalls[i].payload[1].valKind = args.uf_value
              /\ UpdateCalls[i].payload[1].value = ArgFieldValue.value
        /\ (Done /\ args.bad = {} /\ result # DetectError) =>
              /\ IsBuildError(result) <=>
                    (args.uf_id \in {"missing", "nonint"} \/ args.uf_value = "missing")
              /\ ~IsBuildError(result) => Len(UpdateCalls) = 1
              /\ (args.uf_value = "null" /\ args.uf_id = "ok") =>
                    /\ Len(UpdateCalls) = 1
                    /\ UpdateCalls[1].payload[1].valKind = "null"

\* C17 witness: updated_field {id, value: null} was sent upstream as the
\* entry with value null and the update succeeded.
C17_Witness ==
    /\ IsUpdateItem /\ Done
    /\ args.uf_value = "null" /\ args.uf_id = "ok"
    /\ Len(UpdateCalls) = 1
    /\ UpdateCalls[1].payload = << [fieldID |-> 7, valKind |-> "null", value |-> ""] >>
    /\ result.kind = "text"

\* a list result with a page info, and the call whose response it is from
HasPageInfo == Done /\ result.kind = "text" /\ result.data.pageInfo # <<>>
PageInfoCall ==
    IF IsDualList
    THEN IF ~Unsuccessful(calls[2].r) THEN calls[2] ELSE calls[1]
    ELSE LastCall
\* an after / before argument that is a non-empty string
CursorGiven(v) == v \notin {-1, 0}

\* C18: in every page info of a list result, built from a response:
\* hasNextPage iff the response's forward cursor is non-empty,
\* hasPreviousPage iff its backward cursor is non-empty, a non-empty cursor
\* is emitted unchanged as nextCursor / prevCursor and an empty one is
\* omitted from the output; and a list call carries after / before exactly
\* when the argument is a non-empty string, with the argument's value.
C18_PageInfoFromCursors ==
    /\ HasPageInfo =>
          LET pi == result.data.pageInfo[1]
              c == PageInfoCall
          IN  /\ c.r.resp
              /\ pi.hasNextPage <=> c.respAfter # 0
              /\ pi.hasPreviousPage <=> c.respBefore # 0
              /\ {"hasNextPage", "hasPreviousPage"} \subseteq pi.keys
              /\ "nextCursor" \in pi.keys <=> c.respAfter # 0
              /\ "prevCursor" \in pi.keys <=> c.respBefore # 0
              /\ "nextCursor" \in pi.keys => pi.nextCursor = c.respAfter
              /\ "prevCursor" \in pi.keys => pi.prevCursor = c.respBefore
    /\ \A i \in DOMAIN calls :
          IsListEndpointCall(calls[i]) =>
              /\ calls[i].opts.afterSet <=> CursorGiven(args.after)
              /\ calls[i].opts.beforeSet <=> CursorGiven(args.before)
              /\ calls[i].opts.afterSet => calls[i].opts.after = args.after
              /\ calls[i].opts.beforeSet => calls[i].opts.before = args.before

\* C18 witness: list_project_items, called with an empty after and a before
\* cursor, got a response with a forward cursor and no backward one: the
\* request carried before only, the page info has nextCursor and no
\* prevCursor.
C18_Witness ==
    /\ HasPageInfo /\ args.method = "list_project_items"
    /\ args.after = 0 /\ args.before = 50
    /\ ~LastCall.opts.afterSet /\ LastCall.opts.beforeSet
    /\ LastCall.respAfter = 50 /\ LastCall.respBefore = 0
    /\ result.data.pageInfo[1].keys = {"hasNextPage", "hasPreviousPage", "nextCursor"}
    /\ result.data.pageInfo[1].hasNextPage
    /\ ~result.data.pageInfo[1].hasPreviousPage

\* a call of a user- or org-shaped endpoint that is not a probe
IsScopedCall(c) == c.scope \in {"user", "org"} /\ ~IsProbe(c)
ProbesOf(scope) == SelectSeq(Probes, LAMBDA c : c.scope = scope)

\* C19: an invocation probes the owner kind at most once: at most one user
\* probe and one org probe, all before any other call, and none when
\* owner_type is given or in assign_issue_to_org_project, whose kind is org.
\* Once the kind is known, every other call of a user- or org-shaped endpoint
\* goes to the endpoint of that kind.
C19_OwnerKindAuthoritative ==
    /\ Len(ProbesOf("user")) <= 1 /\ Len(ProbesOf("org")) <= 1
    /\ Probes = SubSeq(calls, 1, Len(Probes))
    /\ (args.owner_type # "" \/ IsAssign) => Probes = <<>>
    /\ (args.owner_type # "" /\ pc # "start") => ownerType = args.owner_type
    /\ (IsAssign /\ pc # "start") => ownerType = "org"
    /\ ownerType # "" =>
          \A i \in DOMAIN calls :
              IsScopedCall(calls[i]) => calls[i].scope = ownerType

\* C19 witness: update_project_item_field_by_name without owner_type
\* resolved the owner to org by two probes, then listed the fields and
\* updated the item on the org endpoints.
C19_Witness ==
    /\ IsByName /\ args.owner_type = "" /\ Done
    /\ Len(Probes) = 2 /\ ownerType = "org"
    /\ Len(calls) = 4
    /\ IsResolveCall(calls[3]) /\ calls[3].scope = "org"
    /\ IsUpdateCall(calls[4]) /\ calls[4].scope = "org"

\* C20: when an operation has returned, every response it got from the REST
\* client has been closed: also a response that came with an error or with a
\* non-success status, both responses of the dual-scope list, and every page
\* response of the item scan.
C20_EveryResponseClosed ==
    Done => \A i \in DOMAIN calls : calls[i].r.resp => calls[i].closed >= 1

\* the fields the field lists of the invocation gave, and the field entries
\* that set the option of the name on the field of the name, by those IDs
ListedFields ==
    UNION {{calls[k].listed[i] : i \in DOMAIN calls[k].listed} : k \in DOMAIN calls}
EntriesSetting(fieldName, optionName) ==
    {[fieldID |-> f.id, valKind |-> "v", value |-> f.options[j].id] :
        <<f, j>> \in {p \in ListedFields \X (1..2) :
                        /\ p[1].name = fieldName
                        /\ p[2] \in DOMAIN p[1].options
                        /\ p[1].options[p[2]].name = optionName}}

\* C21: assign_issue_to_org_project never compensates.  Whatever fails after
\* the add mutation, the invocation issues no delete call, no second
\* mutation, and no update other than setting the requested option on
\* Priority or on Size, each field at most once: nothing applied is reverted.
C21_NoCompensation ==
    IsAssign =>
        /\ \A i \in DOMAIN calls : ~IsDeleteCall(calls[i])
        /\ Len(SelectSeq(calls, LAMBDA c : c.api = "Mutate")) <= 1
        /\ Len(UpdateCalls) <= 2
        /\ \A i \in DOMAIN UpdateCalls :
              /\ Len(UpdateCalls[i].payload) = 1
              /\ UpdateCalls[i].payload[1] \in
                    EntriesSetting("Priority", Priority)
                        \cup EntriesSetting("Size", Size)
              /\ \A j \in DOMAIN UpdateCalls :
                    j # i => UpdateCalls[j].payload[1].fieldID #
                             UpdateCalls[i].payload[1].fieldID

\* C21 witness: Priority was set, then the Size option could not be
\* resolved; the workflow ended with the error after the one update.
C21_Witness ==
    /\ IsAssign /\ ItemAdded /\ Done /\ result.kind = "error"
    /\ Priority = "High" /\ Size = "Huge"
    /\ Len(UpdateCalls) = 1 /\ ~Unsuccessful(UpdateCalls[1].r)
    /\ IsResolveCall(LastCall) /\ result.text[1] = "Size"
    /\ \A i \in DOMAIN calls : ~IsDeleteCall(calls[i])

ResolveCalls == SelectSeq(calls, IsResolveCall)
\* the field and option names of the n-th resolution of the invocation
ResolvedField(n) ==
    IF ~IsAssign THEN args.field_name
    ELSE IF n = 1 /\ Priority # "" THEN "Priority" ELSE "Size"
ResolvedOption(n) ==
    IF ~IsAssign THEN args.option_name
    ELSE IF n = 1 /\ Priority # "" THEN Priority ELSE Size
\* positions in the log of the resolver's calls
ResolvePositions == {i \in DOMAIN calls : IsResolveCall(calls[i])}
NthResolve(i) == Cardinality({k \in ResolvePositions : k <= i})

\* C22: the resolver does not memoize.  Each resolution issues one list-fields
\* call of page size 100 without a cursor, and no second page; it decides
\* from the fields of that call's response, which are the project's fields
\* at the time of the call; assign_issue_to_org_project with priority and
\* size issues a list-fields call for each, so an option created between the
\* two is found by the second.
C22_ResolverNeverMemoizes ==
    /\ \A i \in ResolvePositions :
          /\ calls[i].api = "ListProjectFields"
          /\ calls[i].opts = ResolveOpts
          /\ ~calls[i].opts.afterSet /\ ~calls[i].opts.beforeSet
          /\ calls[i].opts.perPage = 100
          \* the next call, if any, is the update the resolution decided on
          /\ i < Len(calls) =>
                LET res == ScanFields(calls[i].listed, ResolvedField(NthResolve(i)),
                                      ResolvedOption(NthResolve(i)))
                IN  /\ IsUpdateCall(calls[i + 1])
                    /\ res.err = <<>>
                    /\ calls[i + 1].payload =
                          << [fieldID |-> res.fieldID, valKind |-> "v",
                              value |-> res.optionID] >>
    /\ JustResolved =>
          /\ LastCall.listed = srv.fields
          /\ LET res == ScanFields(srv.fields, ResolveField, ResolveOption)
             IN  IF res.err = <<>>
                 THEN pc = "update" /\ loc.optionID = res.optionID
                 ELSE Done /\ result.kind = "error"
    /\ Len(ResolveCalls) <= (IF IsAssign THEN 2 ELSE 1)
    /\ (IsAssign /\ Done /\ result.kind = "text") =>
          Len(ResolveCalls) = (IF Priority # "" THEN 1 ELSE 0)
                                + (IF Size # "" THEN 1 ELSE 0)

\* C22 witness: the option Huge of Size was created after the list-fields
\* call for Priority; the list-fields call for Size returned it and Size was
\* set to it.
C22_Witness ==
    /\ IsAssign /\ Done /\ result.kind = "text"
    /\ Priority = "High" /\ Size = "Huge"
    /\ Len(ResolveCalls) = 2
    /\ ResolveCalls[1].listed = FieldsBoth
    /\ ResolveCalls[2].listed = FieldsGrown
    /\ Len(UpdateCalls) = 2
    /\ UpdateCalls[2].payload[1].value = "opt4"

GQLCalls == SelectSeq(calls, IsGQLCall)
GQLPositions == {i \in DOMAIN calls : IsGQLCall(calls[i])}

\* C23: the GraphQL calls of an add are, in this order: one query for the
\* content node ID of the issue or pull request, by owner, repository and
\* number; one query for the project node ID, on the organization iff the
\* owner kind is org; the add mutation.  Each is issued only if the one
\* before succeeded, and the mutation's input is the project node ID and the
\* content node ID the two queries returned.
C23_AddCallsInOrder ==
    /\ Len(GQLCalls) <= 3
    /\ \A i, j \in GQLPositions : i < j => \A k \in i..j : k \in GQLPositions
    /\ \A n \in DOMAIN GQLCalls : n > 1 => ~GQLCalls[n - 1].r.err
    /\ Len(GQLCalls) >= 1 =>
          /\ GQLCalls[1].api = "Query"
          /\ GQLCalls[1].fn = (IF ItemType = "issue" THEN "resolveIssueNodeID"
                               ELSE "resolvePullRequestNodeID")
          /\ GQLCalls[1].input =
                <<args.item_owner, args.item_repo,
                  IF ItemType = "issue" THEN args.issue_number
                  ELSE args.pull_request_number>>
    /\ Len(GQLCalls) >= 2 =>
          /\ GQLCalls[2].api = "Query"
          /\ GQLCalls[2].scope \in {"user", "org"}
          /\ GQLCalls[2].scope = "org" <=> ownerType = "org"
    /\ Len(GQLCalls) = 3 =>
          /\ GQLCalls[3].api = "Mutate"
          /\ GQLCalls[3].input = <<GQLCalls[2].id, GQLCalls[1].id>>
          /\ GQLCalls[3].input[1] = ProjectNodeID(GQLCalls[2].scope)
    /\ (GQLCalls # <<>> /\ GQLCalls[Len(GQLCalls)].r.err) =>
          Done /\ result.kind = "error"

\* C23 witness: projects_write added a pull request to an org project by the
\* three calls.
C23_Witness ==
    /\ args.tool = "projects_write" /\ args.method = "add_project_item"
    /\ args.item_type = "pull_request" /\ ownerType = "org"
    /\ Len(GQLCalls) = 3 /\ ~GQLCalls[3].r.err
    /\ GQLCalls[1].fn = "resolvePullRequestNodeID"
    /\ GQLCalls[3].input[2] = <<"pull_request", "acme", "repo", 9>>
    /\ Done /\ result.kind = "text"

\* the call failed: an error, or a status other than the one the operation
\* takes as success
CallFailed(c) ==
    \/ c.r.err
    \/ c.r.resp /\ c.r.status # (IF IsDeleteCall(c) THEN StatusNoContent ELSE StatusOK)
\* the same upstream request
SameRequest(c, d) ==
    /\ c.api = d.api /\ c.scope = d.scope /\ c.opts = d.opts
    /\ c.payload = d.payload /\ c.input = d.input
CountCalls(P(_)) == Len(SelectSeq(calls, P))
IsQuery(c) == c.api = "Query"
IsMutation(c) == c.api = "Mutate"
IsOwnCall(c) == ~IsProbe(c)
\* the most calls an operation issues besides the probes
OwnCallsAtMost ==
    CASE args.tool = "projects_list" -> IF args.method = "list_projects" THEN 2 ELSE 1
      [] args.tool = "projects_get" -> 1
      [] args.tool = "projects_write" ->
            IF args.method = "add_project_item" THEN 3 ELSE 1
      [] args.tool = "update_project_item_field_by_name" -> 2
      [] OTHER -> 12

\* C24: nothing is retried and the number of upstream calls is bounded.  A
\* call that failed is not issued again with the same arguments in the
\* invocation; an invocation issues at most 2 probes and its operation's own
\* calls: for assign_issue_to_org_project at most 2 queries, 1 mutation, 5
\* list-items calls, 2 list-fields calls and 2 updates, and no probe.
C24_NoRetryBoundedCalls ==
    /\ \A i, j \in DOMAIN calls :
          (i < j /\ CallFailed(calls[i])) => ~SameRequest(calls[i], calls[j])
    /\ CountCalls(IsProbe) <= 2
    /\ CountCalls(IsOwnCall) <= OwnCallsAtMost
    /\ IsAssign =>
          /\ CountCalls(IsProbe) = 0
          /\ CountCalls(IsQuery) <= 2
          /\ CountCalls(IsMutation) <= 1
          /\ CountCalls(IsScanCall) <= 5
          /\ CountCalls(IsResolveCall) <= 2
          /\ CountCalls(IsUpdateCall) <= 2

\* C24 witness: the workflow found the issue's item on the fifth page of the
\* scan and set Priority: 2 queries, 1 mutation, 5 list-items calls, 1
\* list-fields call and 1 update.
C24_Witness ==
    /\ IsAssign /\ Done /\ result.kind = "text"
    /\ CountCalls(IsScanCall) = 5
    /\ CountCalls(IsUpdateCall) = 1
    /\ Len(calls) = 10

\* both probes and the two calls of update_project_item_field_by_name, the
\* update having failed
C24_WitnessFailed ==
    /\ IsByName /\ Done /\ Len(calls) = 4 /\ CountCalls(IsProbe) = 2
    /\ CallFailed(LastCall)

\* the step of the workflow a call belongs to
StepOf(c) ==
    CASE c.api = "Query" /\ c.scope = "repository" -> "content lookup"
      [] c.api = "Query" -> "project lookup"
      [] c.api = "Mutate" -> "mutation"
      [] IsScanCall(c) -> "scan"
      [] IsResolveCall(c) -> "resolve"
      [] IsUpdateCall(c) -> "update"
      [] OTHER -> "other"
\* the steps after the scan, for the priority and size given
FieldSteps ==
    (IF Priority # "" THEN <<"resolve", "update">> ELSE <<>>)
        \o (IF Size # "" THEN <<"resolve", "update">> ELSE <<>>)
\* the updates of the result, for the priority and size given
ExpectedUpdates ==
    (IF Priority # "" THEN << <<"Priority", Priority>> >> ELSE <<>>)
        \o (IF Size # "" THEN << <<"Size", Size>> >> ELSE <<>>)
NonScanBefore == <<"content lookup", "project lookup", "mutation">>
\* the calls after the last call of the scan
AfterScan ==
    SelectSeq(calls, LAMBDA c : StepOf(c) \in {"resolve", "update"})

\* C25: the calls of assign_issue_to_org_project come in the order content
\* lookup, project lookup, mutation, item scan, then for Priority and then
\* for Size, if given, the option resolution followed by the update.  When
\* the Priority option cannot be resolved no update and no call for Size
\* follows; with neither priority nor size there is no list-fields and no
\* update call and the result's updates are empty.
C25_WorkflowOrder ==
    IsAssign =>
        /\ \A i \in DOMAIN calls :
              /\ i <= 3 => StepOf(calls[i]) = NonScanBefore[i]
              /\ i > 3 => StepOf(calls[i]) \in {"scan", "resolve", "update"}
              /\ (i > 1 /\ StepOf(calls[i]) = "scan") =>
                    StepOf(calls[i - 1]) \in {"mutation", "scan"}
        /\ Len(AfterScan) <= Len(FieldSteps)
        /\ \A n \in DOMAIN AfterScan : StepOf(AfterScan[n]) = FieldSteps[n]
        /\ \A n \in DOMAIN UpdateCalls :
              UpdateCalls[n].payload[1] \in
                  EntriesSetting(ResolvedField(n), ResolvedOption(n))
        /\ (Done /\ result.kind = "error" /\ result.text[1] = "Priority") =>
              /\ Len(AfterScan) = 1 /\ IsResolveCall(LastCall)
              /\ UpdateCalls = <<>>
        /\ (Priority = "" /\ Size = "") =>
              /\ AfterScan = <<>>
              /\ (Done /\ result.kind = "text") => result.data.updates = <<>>
        /\ (Done /\ result.kind = "text") =>
              /\ result.data.updates = ExpectedUpdates
              /\ Len(AfterScan) = Len(FieldSteps)

\* C25 witness: with priority High and size Large the eight calls were made
\* in order and both updates are reported.
C25_Witness ==
    /\ IsAssign /\ Done /\ result.kind = "text"
    /\ Priority = "High" /\ Size = "Large"
    /\ [i \in 1..Len(calls) |-> StepOf(calls[i])] =
          <<"content lookup", "project lookup", "mutation", "scan",
            "resolve", "update", "resolve", "update">>
    /\ UpdateCalls[1].payload[1].fieldID = 42
    /\ UpdateCalls[2].payload[1].fieldID = 43
    /\ result.data.updates = << <<"Priority", "High">>, <<"Size", "Large">> >>

\* the Priority option could not be resolved, with a size given: the
\* workflow ended at the list-fields call
C25_WitnessPriorityFails ==
    /\ IsAssign /\ Done /\ Priority = "Medium" /\ Size = "Large"
    /\ result.kind = "error" /\ result.text[1] = "Priority"
    /\ Len(ResolveCalls) = 1 /\ UpdateCalls = <<>>

\* C26: no response body is closed more than once in an invocation, whatever
\* the operation and the outcomes of its calls: every response of the log has
\* at most one Close() call.
C26_NoDoubleClose ==
    \A i \in DOMAIN calls : calls[i].closed <= 1

====
